---- MODULE Spec2Model ----
(***************************************************************************)
(* Model of the statusline accumulator of claude-code-energy-monitor       *)
(* (src/statusline.py): concurrent update_daily invocations, one per       *)
(* process, serialised by an exclusive flock on the daily file, with the   *)
(* midnight rollover into the append-only history archive.                 *)
(***************************************************************************)
EXTENDS Integers, Sequences, FiniteSets, TLC

(* ------------------------------ bounds -------------------------------- *)
NumProcs == 2       \* concurrent statusline processes
NumSessions == 2    \* distinct session ids
MaxTok == 1         \* largest total_input_tokens / total_output_tokens
MaxCache == 1       \* largest current_usage cache_read / cache_creation
MaxDate == 2        \* last calendar date the clock reaches
MaxInv == 2         \* invocations of update_daily in one concurrent behaviour
MaxSeq == 3         \* invocations of update_daily in one sequential behaviour
MaxFault == 2       \* runs of main in one behaviour with faults
MaxInput == 2       \* runs of main in one behaviour that reads standard input
MaxMwh == 1200      \* largest whole number of mWh handed to fmt_nrg
MaxBack == 10       \* days before today that may have a line in the archive
MaxDup == 2         \* days before today that may have two lines in the archive

Procs == 1..NumProcs
Sessions == 1..NumSessions
Dates == 1..MaxDate
NoDate == 0         \* d.get("date") of an object without a date (None)

VARIABLES
  now,        \* the calendar date date.today() returns
  file,       \* DAILY_FILE: [ok |-> it parses, obj |-> its JSON object]
  history,    \* HISTORY_FILE: the sequence of its lines
  lockHeld,   \* the processes holding flock(LOCK_EX) on the lock file
  pc,         \* each process's position in update_daily
  today,      \* each process's local `today`
  snap,       \* each process's arguments (sid, inp, out, cu_cache_read, cu_cache_write)
  loaded,     \* each process's `d` as load(DAILY_FILE) returned it
  d,          \* each process's `d` as handed to save
  arch,       \* what the rollover of this invocation did to the archive
  sv,         \* what save did in this invocation
  ret,        \* the value update_daily returns
  inv,        \* number of invocations started
  saveFailed, \* some save of this behaviour failed
  serial,     \* the state a one-at-a-time run in lock order produces
  overlap,    \* some invocation started while another was waiting or locked
  glast,      \* per session: the last snapshot delivered in this DailyState
  gsum,       \* per session: cache values summed over its boundary snapshots,
              \* input and output growth summed over its snapshots, and the
              \* largest input and output totals it has reported
  gcnt,       \* per session: <<snapshots delivered, boundaries among them>>
  tmp,        \* DAILY_FILE.with_suffix(".tmp"): [st |-> how much is written, obj]
  rd,         \* what a reader without the lock last read from DAILY_FILE
  pre,        \* DAILY_FILE and HISTORY_FILE as the last whole invocation found them
  out,        \* what main printed: the day, week and month totals of its line
  raw,        \* what the last run of main read from standard input
  nrg         \* arguments and results of energy_mid and fmt_nrg

vars == <<now, file, history, lockHeld, pc, today, snap, loaded, d, arch, sv, ret,
          inv, saveFailed, serial, overlap, glast, gsum, gcnt, tmp, rd, pre, out,
          raw, nrg>>

\* standard input and the energy functions
io == <<raw, nrg>>

\* the state of save's steps, of main's tail and of the readers
aux == <<tmp, rd, pre, out, raw, nrg>>

(* ----------------------------- data model ----------------------------- *)
NoRec == [i |-> -1, o |-> -1, c |-> -1, cw |-> -1, li |-> -1, lcr |-> -1, lcw |-> -1]
ZeroRec == [i |-> 0, o |-> 0, c |-> 0, cw |-> 0, li |-> 0, lcr |-> 0, lcw |-> 0]

\* {} : the object load returns for a missing or unparseable file
EmptyObj == [date |-> NoDate, sessions |-> [s \in Sessions |-> NoRec],
             input |-> 0, output |-> 0, cached |-> 0, cache_write |-> 0]

NoSnap == [sid |-> 0, inp |-> 0, out |-> 0, cr |-> 0, cw |-> 0]
Snapshots == [sid : Sessions, inp : 0..MaxTok, out : 0..MaxTok,
              cr : 0..MaxCache, cw : 0..MaxCache]

NoRet == [kind |-> "none", val |-> <<>>]

\* no temporary file
NoTmp == [st |-> "absent", obj |-> EmptyObj]

\* what the last run of main found on entry, whether taking the lock failed
\* in it ("damaged" once the file was damaged after it), and whether taking
\* the lock had failed in a run before it
NoPre == [file |-> [ok |-> FALSE, obj |-> EmptyObj], history |-> <<>>,
          fault |-> "none", before |-> FALSE]

\* nothing on standard input yet; a field that is absent is 0 (the session
\* id) or -1 (a count)
NoRaw == [kind |-> "none", sid |-> 0, inp |-> -1, out |-> -1, cr |-> -1, cw |-> -1]

\* no energy computed
NoNrg == [st |-> "none", tok |-> <<0, 0, 0, 0>>, x |-> 0, mid |-> -1, val |-> -1,
          txt |-> <<0, "">>]

\* nothing read yet
NoRead == [st |-> "none", obj |-> EmptyObj]

\* nothing printed yet
ZeroTot == [input |-> 0, output |-> 0, cache_read |-> 0, cache_write |-> 0]
NoOut == [kind |-> "none", live |-> NoDate, day |-> ZeroTot, week |-> ZeroTot,
          month |-> ZeroTot, dup |-> FALSE]

\* load(path): the parsed object, {} on any exception
load(f) == IF f.ok THEN f.obj ELSE EmptyObj

\* the object update_daily builds at rollover
FreshDay(t) == [date |-> t, sessions |-> [s \in Sessions |-> NoRec],
                input |-> 0, output |-> 0, cached |-> 0, cache_write |-> 0]

\* a missing record read as it stands, without the zero defaults
PrevRecRaw(obj, sid) == obj.sessions[sid]

\* d.get("sessions", {}).get(sid, {}) read through .get(key, 0)
PrevRec(obj, sid) == IF obj.sessions[sid] = NoRec THEN ZeroRec ELSE obj.sessions[sid]

NumSessionsOf(obj) == Cardinality({s \in Sessions : obj.sessions[s] # NoRec})

Max0(x) == IF x > 0 THEN x ELSE 0

\* the accumulation loops: the sum of f over the keys S
RECURSIVE SumOver(_, _)
SumOver(f, S) == IF S = {} THEN 0
                 ELSE LET x == CHOOSE y \in S : TRUE IN f[x] + SumOver(f, S \ {x})

(* ------------------- update_daily, lines 206-234 ---------------------- *)
\* a detector without the cache-field fallback
NewCallInputOnly(s, prev) == s.inp > prev.li

\* a detector that does not look at cache_write
NewCallNoWrite(s, prev) == s.inp > prev.li \/ s.cr # prev.lcr

\* a detector that looks at the cache fields only
NewCallCacheOnly(s, prev) == s.cr # prev.lcr \/ s.cw # prev.lcw

\* a detector that reports every snapshot
NewCallAlways(s, prev) == TRUE

\* the call-boundary detector
NewCall(s, prev) == \/ s.inp > prev.li
                    \/ s.cr # prev.lcr
                    \/ s.cw # prev.lcw

\* the cache value added on every snapshot, boundary or not
AccCrAlways(s, prev) == prev.c + s.cr

AccCr(s, prev) == IF NewCall(s, prev) THEN prev.c + s.cr ELSE prev.c
AccCw(s, prev) == IF NewCall(s, prev) THEN prev.cw + s.cw ELSE prev.cw

\* the input delta without the clamp
DeltaInUnclamped(s, prev) == s.inp - prev.i

\* the input delta taken against zero in place of the stored total
DeltaInFromZero(s, prev) == Max0(s.inp)

\* di, do_, d_cr, d_cw
DeltaIn(s, prev) == Max0(s.inp - prev.i)
DeltaOut(s, prev) == Max0(s.out - prev.o)
\* a cache_read delta that is the snapshot's value on every snapshot
DeltaCrEverySnapshot(s, prev) == Max0(s.cr)

DeltaCr(s, prev) == Max0(AccCr(s, prev) - prev.c)
DeltaCw(s, prev) == Max0(AccCw(s, prev) - prev.cw)

\* a record that keeps the deltas in place of the raw totals
NewRecDeltas(s, prev) == [i |-> DeltaIn(s, prev), o |-> DeltaOut(s, prev),
                          c |-> AccCr(s, prev), cw |-> AccCw(s, prev),
                          li |-> s.inp, lcr |-> s.cr, lcw |-> s.cw]

\* the record written at lines 228-230
NewRec(s, prev) == [i |-> s.inp, o |-> s.out, c |-> AccCr(s, prev),
                    cw |-> AccCw(s, prev), li |-> s.inp,
                    lcr |-> s.cr, lcw |-> s.cw]

\* an update that stores the deltas in place of the counters
ApplySnapshotOverwrite(obj, s) ==
  LET prev == PrevRec(obj, s.sid) IN
  [obj EXCEPT !.sessions[s.sid] = NewRec(s, prev),
              !.input = DeltaIn(s, prev),
              !.output = DeltaOut(s, prev),
              !.cached = DeltaCr(s, prev),
              !.cache_write = DeltaCw(s, prev)]

\* an update that writes a sessions map holding the invoking session alone
ApplySnapshotAlone(obj, s) ==
  LET prev == PrevRec(obj, s.sid) IN
  [obj EXCEPT !.sessions = [x \in Sessions |-> IF x = s.sid THEN NewRec(s, prev)
                                                ELSE NoRec],
              !.input = @ + DeltaIn(s, prev),
              !.output = @ + DeltaOut(s, prev),
              !.cached = @ + DeltaCr(s, prev),
              !.cache_write = @ + DeltaCw(s, prev)]

\* the object after the session record and the four counters are written
ApplySnapshot(obj, s) ==
  LET prev == PrevRec(obj, s.sid) IN
  [obj EXCEPT !.sessions[s.sid] = NewRec(s, prev),
              !.input = @ + DeltaIn(s, prev),
              !.output = @ + DeltaOut(s, prev),
              !.cached = @ + DeltaCr(s, prev),
              !.cache_write = @ + DeltaCw(s, prev)]

(* ------------------- update_daily, lines 184-204 ---------------------- *)
\* a rollover test that takes an object without a date for today's
IsRolloverDated(obj, t) == obj.date # NoDate /\ obj.date # t

\* d.get("date") != today
IsRollover(obj, t) == obj.date # t

ShouldArchive(obj) == obj.date # NoDate /\ obj.input + obj.output > 0

\* a summary whose session count is the number of sessions that could exist
SummaryAllSessions(obj) == [date |-> obj.date, input |-> obj.input, output |-> obj.output,
                 cache_read |-> obj.cached, cache_write |-> obj.cache_write,
                 sessions |-> Cardinality(Sessions)]

Summary(obj) == [date |-> obj.date, input |-> obj.input, output |-> obj.output,
                 cache_read |-> obj.cached, cache_write |-> obj.cache_write,
                 sessions |-> NumSessionsOf(obj)]

\* an append whose failure leaves the block as an exception
ArchiveAppendRaising(h, line, ok) ==
  [hist |-> IF ok THEN Append(h, line) ELSE h, raised |-> ~ok]

\* an archive opened with O_TRUNC in place of O_APPEND: the lines it held
\* are gone whether or not the write succeeds
ArchiveAppendTruncating(h, line, ok) ==
  [hist |-> IF ok THEN <<line>> ELSE <<>>, raised |-> FALSE]

\* the try/except around the O_APPEND write: the line is appended when the
\* write succeeds, and no exception leaves the block
ArchiveAppend(h, line, ok) ==
  [hist |-> IF ok THEN Append(h, line) ELSE h, raised |-> FALSE]

\* a rollover that redates the object and keeps its counters
AfterRolloverKeep(obj, t) == IF obj.date # t THEN [obj EXCEPT !.date = t] ELSE obj

\* a rollover that zeroes the counters and keeps the session records
AfterRolloverKeepSessions(obj, t) ==
  IF obj.date # t THEN [FreshDay(t) EXCEPT !.sessions = obj.sessions] ELSE obj

\* d after the rollover branch
AfterRollover(obj, t) == IF IsRollover(obj, t) THEN FreshDay(t) ELSE obj

\* load, rollover and update as one function of the stored object
Step(obj, t, s) == ApplySnapshot(AfterRollover(obj, t), s)

\* the tuple update_daily returns
RetOf(obj, s) == [kind |-> "ok",
                  val |-> <<obj.input, obj.output, obj.cached, obj.cache_write,
                            obj.sessions[s.sid].c, obj.sessions[s.sid].cw>>]

\* save(path, obj): the rename replaces the file, or the file is untouched
save(f, obj, ok) == IF ok THEN [ok |-> TRUE, obj |-> obj] ELSE f

\* flock that never blocks
CanLockNoWait(p) == TRUE

\* flock(LOCK_EX) returns only when no other process holds the lock
CanLock(p) == lockHeld = {}

(* --------------- load_history, _sum_range, weekly totals -------------- *)
\* Dates are day numbers: day 1 is Monday 1 January, January has 31 days.
\* isoformat strings of dates compare as the day numbers do.
Weekday(t) == (t - 1) % 7
MondayOf(t) == t - Weekday(t)
MonthStart(t) == IF t >= 32 THEN 32 ELSE 1

\* a line json.loads accepts and that has a "date"; a line cut short has
\* lost its end, sessions (the last key json.dumps writes) is -1 in it
LineOk(l) == l.date # NoDate /\ l.sessions # -1

\* load_history: days[d["date"]] = d, line after line
HistDates(h) == {h[i].date : i \in {j \in 1..Len(h) : LineOk(h[j])}}

\* a dictionary in which the first line of a date is kept
FirstLineOf(h, dt) ==
  h[CHOOSE i \in 1..Len(h) :
      /\ LineOk(h[i]) /\ h[i].date = dt
      /\ \A j \in 1..(i-1) : LineOk(h[j]) => h[j].date # dt]

\* the entry days[dt] after the loop: the last line of the date
LastLineOf(h, dt) ==
  h[CHOOSE i \in 1..Len(h) :
      /\ LineOk(h[i]) /\ h[i].date = dt
      /\ \A j \in (i+1)..Len(h) : LineOk(h[j]) => h[j].date # dt]

\* _sum_range(days, start, end)
InRange(h, start, end) == {dt \in HistDates(h) : start <= dt /\ dt <= end}
SumRange(h, start, end) ==
  LET S == InRange(h, start, end) IN
  [input |-> SumOver([dt \in S |-> LastLineOf(h, dt).input], S),
   output |-> SumOver([dt \in S |-> LastLineOf(h, dt).output], S),
   cache_read |-> SumOver([dt \in S |-> LastLineOf(h, dt).cache_read], S),
   cache_write |-> SumOver([dt \in S |-> LastLineOf(h, dt).cache_write], S)]

AddTot(a, b) == [input |-> a.input + b.input, output |-> a.output + b.output,
                 cache_read |-> a.cache_read + b.cache_read,
                 cache_write |-> a.cache_write + b.cache_write]

\* d_in, d_out, d_cr, d_cw as main passes them on
LiveOf(r) == [input |-> r.val[1], output |-> r.val[2],
              cache_read |-> r.val[3], cache_write |-> r.val[4]]

\* the week starts on the Monday of today's week
\* a week that begins six days before today on every weekday
WeekStartRolling(t) == t - 6

\* w_start: the Monday of today's week
WeekStart(t) == MondayOf(t)

\* weekly_monthly_totals: today is read again, the archive is loaded, and
\* the ranges [start, yesterday] are summed and the live values added
WeeklyMonthly(t, h, live, liveDate) ==
  [kind |-> "line", live |-> liveDate, day |-> live,
   week |-> AddTot(SumRange(h, WeekStart(t), t - 1), live),
   month |-> AddTot(SumRange(h, MonthStart(t), t - 1), live),
   dup |-> liveDate \in (InRange(h, WeekStart(t), t - 1)
                          \cup InRange(h, MonthStart(t), t - 1))]

\* main, lines 369-391: the line is printed after update_daily returned; an
\* exception of update_daily is not caught and ends the process
MainTail(r, t, h, liveDate) ==
  IF r.kind = "ok" THEN WeeklyMonthly(t, h, LiveOf(r), liveDate)
  ELSE [NoOut EXCEPT !.kind = "crash"]

(* ------------------------- history variables -------------------------- *)
NoSum == [cr |-> 0, cw |-> 0, di |-> 0, do |-> 0, mi |-> 0, mo |-> 0]
NoCnt == [n |-> 0, nb |-> 0]
GInit == [last |-> [s \in Sessions |-> NoSnap],
          sum |-> [s \in Sessions |-> NoSum],
          cnt |-> [s \in Sessions |-> NoCnt]]

\* a snapshot is a boundary when, against the snapshot delivered before it
\* for the same session (none: all zeros), the input total grew or a cache
\* field changed
IsBoundary(s, before) == \/ s.inp > before.inp
                         \/ s.cr # before.cr
                         \/ s.cw # before.cw

GStep(g, roll, s) ==
  LET g0 == IF roll THEN GInit ELSE g
      b == IsBoundary(s, g0.last[s.sid])
  IN [last |-> [g0.last EXCEPT ![s.sid] = s],
      sum |-> [g0.sum EXCEPT ![s.sid] =
                 [cr |-> IF b THEN @.cr + s.cr ELSE @.cr,
                  cw |-> IF b THEN @.cw + s.cw ELSE @.cw,
                  di |-> @.di + Max0(s.inp - g0.last[s.sid].inp),
                  do |-> @.do + Max0(s.out - g0.last[s.sid].out),
                  mi |-> IF s.inp > @.mi THEN s.inp ELSE @.mi,
                  mo |-> IF s.out > @.mo THEN s.out ELSE @.mo]],
      cnt |-> [g0.cnt EXCEPT ![s.sid] =
                 [n |-> @.n + 1, nb |-> @.nb + (IF b THEN 1 ELSE 0)]]]

(* ------------------------------ actions ------------------------------- *)
Init ==
  /\ now = 1
  /\ file = [ok |-> FALSE, obj |-> EmptyObj]
  /\ history = <<>>
  /\ lockHeld = {}
  /\ pc = [p \in Procs |-> "idle"]
  /\ today = [p \in Procs |-> NoDate]
  /\ snap = [p \in Procs |-> NoSnap]
  /\ loaded = [p \in Procs |-> EmptyObj]
  /\ d = [p \in Procs |-> EmptyObj]
  /\ arch = [p \in Procs |-> "none"]
  /\ sv = [p \in Procs |-> "none"]
  /\ ret = [p \in Procs |-> NoRet]
  /\ inv = 0
  /\ saveFailed = FALSE
  /\ serial = EmptyObj
  /\ overlap = FALSE
  /\ glast = GInit.last
  /\ gsum = GInit.sum
  /\ gcnt = GInit.cnt
  /\ tmp = NoTmp
  /\ rd = NoRead
  /\ raw = NoRaw
  /\ nrg = NoNrg
  /\ pre = NoPre
  /\ out = [p \in Procs |-> NoOut]

\* midnight passes
Tick ==
  /\ now < MaxDate
  /\ now' = now + 1
  /\ UNCHANGED <<file, history, lockHeld, pc, today, snap, loaded, d, arch, sv,
                 ret, inv, saveFailed, serial, overlap, glast, gsum, gcnt>>
  /\ UNCHANGED aux

\* update_daily is entered: today is read, the lock file is opened.  The
\* arguments are read by no step before the lock is held and are drawn there.
Begin(p) ==
  /\ pc[p] = "idle"
  /\ inv < MaxInv
  /\ today' = [today EXCEPT ![p] = now]
  /\ pc' = [pc EXCEPT ![p] = "wait"]
  /\ inv' = inv + 1
  /\ overlap' = (overlap \/ \E q \in Procs \ {p} : pc[q] # "idle")
  /\ UNCHANGED <<now, file, history, lockHeld, snap, loaded, d, arch, sv, ret,
                 saveFailed, serial, glast, gsum, gcnt>>
  /\ UNCHANGED aux

\* fcntl.flock(lock_fd, LOCK_EX) returns
Acquire(p) ==
  /\ pc[p] = "wait"
  /\ CanLock(p)
  /\ lockHeld' = lockHeld \cup {p}
  /\ pc' = [pc EXCEPT ![p] = "locked"]
  /\ \E s \in Snapshots :
       /\ snap' = [snap EXCEPT ![p] = s]
       /\ serial' = IF saveFailed THEN serial ELSE Step(serial, today[p], s)
  /\ UNCHANGED <<now, file, history, today, loaded, d, arch, sv, ret,
                 inv, saveFailed, overlap, glast, gsum, gcnt>>
  /\ UNCHANGED aux

\* load, rollover with its archive append, and the update of d in memory
Update(p) ==
  /\ pc[p] = "locked"
  /\ LET obj == load(file)
         roll == IsRollover(obj, today[p])
         g == GStep([last |-> glast, sum |-> gsum, cnt |-> gcnt], roll, snap[p])
     IN /\ loaded' = [loaded EXCEPT ![p] = obj]
        /\ \E aok \in (IF roll /\ ShouldArchive(obj) THEN BOOLEAN ELSE {TRUE}) :
             LET res == IF roll /\ ShouldArchive(obj)
                        THEN ArchiveAppend(history, Summary(obj), aok)
                        ELSE [hist |-> history, raised |-> FALSE]
             IN /\ history' = res.hist
                /\ arch' = [arch EXCEPT ![p] =
                     IF roll /\ ShouldArchive(obj)
                     THEN (IF aok THEN "ok" ELSE "failed") ELSE "none"]
                /\ IF res.raised
                   THEN /\ d' = d
                        /\ ret' = [ret EXCEPT ![p] = [kind |-> "raise", val |-> <<>>]]
                        /\ pc' = [pc EXCEPT ![p] = "rel"]
                   ELSE /\ d' = [d EXCEPT ![p] = Step(obj, today[p], snap[p])]
                        /\ ret' = ret
                        /\ pc' = [pc EXCEPT ![p] = "save"]
        /\ IF saveFailed
           THEN UNCHANGED <<glast, gsum, gcnt>>
           ELSE /\ glast' = g.last
                /\ gsum' = g.sum
                /\ gcnt' = g.cnt
  /\ UNCHANGED <<now, file, lockHeld, today, snap, sv, inv, saveFailed, serial,
                 overlap>>
  /\ UNCHANGED aux

\* save(DAILY_FILE, d) and the evaluation of the return value
Save(p) ==
  /\ pc[p] = "save"
  /\ \E ok \in BOOLEAN :
       /\ file' = save(file, d[p], ok)
       /\ sv' = [sv EXCEPT ![p] = IF ok THEN "ok" ELSE "failed"]
       /\ saveFailed' = (saveFailed \/ ~ok)
       /\ IF ok \/ saveFailed
          THEN UNCHANGED <<serial, glast, gsum, gcnt>>
          ELSE /\ serial' = EmptyObj
               /\ glast' = GInit.last
               /\ gsum' = GInit.sum
               /\ gcnt' = GInit.cnt
  /\ ret' = [ret EXCEPT ![p] = RetOf(d[p], snap[p])]
  /\ pc' = [pc EXCEPT ![p] = "rel"]
  /\ UNCHANGED <<now, history, lockHeld, today, snap, loaded, d, arch, inv,
                 overlap>>
  /\ UNCHANGED aux

\* a return that leaves the lock held
ReleaseNoUnlock(p) ==
  /\ pc[p] = "rel"
  /\ pc' = [pc EXCEPT ![p] = "idle"]
  /\ today' = [today EXCEPT ![p] = NoDate]
  /\ snap' = [snap EXCEPT ![p] = NoSnap]
  /\ loaded' = [loaded EXCEPT ![p] = EmptyObj]
  /\ d' = [d EXCEPT ![p] = EmptyObj]
  /\ arch' = [arch EXCEPT ![p] = "none"]
  /\ sv' = [sv EXCEPT ![p] = "none"]
  /\ ret' = [ret EXCEPT ![p] = NoRet]
  /\ UNCHANGED <<now, file, history, lockHeld, inv, saveFailed, serial, overlap,
                 glast, gsum, gcnt>>
  /\ UNCHANGED aux

\* the finally block: LOCK_UN, close, and update_daily returns
Release(p) ==
  /\ pc[p] = "rel"
  /\ lockHeld' = lockHeld \ {p}
  /\ pc' = [pc EXCEPT ![p] = "idle"]
  /\ today' = [today EXCEPT ![p] = NoDate]
  /\ snap' = [snap EXCEPT ![p] = NoSnap]
  /\ loaded' = [loaded EXCEPT ![p] = EmptyObj]
  /\ d' = [d EXCEPT ![p] = EmptyObj]
  /\ arch' = [arch EXCEPT ![p] = "none"]
  /\ sv' = [sv EXCEPT ![p] = "none"]
  /\ ret' = [ret EXCEPT ![p] = NoRet]
  /\ UNCHANGED <<now, file, history, inv, saveFailed, serial, overlap, glast,
                 gsum, gcnt>>
  /\ UNCHANGED aux

Next ==
  \/ Tick
  \/ \E p \in Procs : Begin(p)
  \/ \E p \in Procs : Acquire(p)
  \/ \E p \in Procs : Update(p)
  \/ \E p \in Procs : Save(p)
  \/ \E p \in Procs : Release(p)

Spec == Init /\ [][Next]_vars

(* ------------------- the lock, with a raising path -------------------- *)
\* an exception raised between flock and save (an interrupt, or a stored
\* object of the wrong shape): nothing is written and control goes to the
\* finally block
UpdateRaise(p) ==
  /\ pc[p] = "locked"
  /\ loaded' = [loaded EXCEPT ![p] = load(file)]
  /\ ret' = [ret EXCEPT ![p] = [kind |-> "raise", val |-> <<>>]]
  /\ pc' = [pc EXCEPT ![p] = "rel"]
  /\ UNCHANGED <<now, file, history, lockHeld, today, snap, d, arch, sv, inv,
                 saveFailed, serial, overlap, glast, gsum, gcnt>>
  /\ UNCHANGED aux

LockNext ==
  \/ Tick
  \/ \E p \in Procs : Begin(p)
  \/ \E p \in Procs : Acquire(p)
  \/ \E p \in Procs : Update(p)
  \/ \E p \in Procs : UpdateRaise(p)
  \/ \E p \in Procs : Save(p)
  \/ \E p \in Procs : Release(p)

\* a process that holds the lock runs straight-line code to its finally block
LockFairness ==
  \A p \in Procs : /\ WF_vars(Update(p) \/ UpdateRaise(p))
                   /\ WF_vars(Save(p))
                   /\ WF_vars(Release(p))

LockSpec == Init /\ [][LockNext]_vars /\ LockFairness

(* ---------------- processes running main side by side ----------------- *)
\* update_daily has returned and unlocked; main goes on to build the line
\* with the returned tuple, which holds the counters of the date read at
\* line 175
ReleaseM(p) ==
  /\ pc[p] = "rel"
  /\ lockHeld' = lockHeld \ {p}
  /\ pc' = [pc EXCEPT ![p] = "tail"]
  /\ snap' = [snap EXCEPT ![p] = NoSnap]
  /\ loaded' = [loaded EXCEPT ![p] = EmptyObj]
  /\ d' = [d EXCEPT ![p] = EmptyObj]
  /\ arch' = [arch EXCEPT ![p] = "none"]
  /\ sv' = [sv EXCEPT ![p] = "none"]
  /\ UNCHANGED <<now, file, history, today, ret, inv, saveFailed, serial, overlap,
                 glast, gsum, gcnt>>
  /\ UNCHANGED aux

\* weekly_monthly_totals reads date.today() and the archive anew, adds the
\* tuple's counters, and main prints the line
Totals(p) ==
  /\ pc[p] = "tail"
  /\ out' = [out EXCEPT ![p] = MainTail(ret[p], now, history, today[p])]
  /\ pc' = [pc EXCEPT ![p] = "idle"]
  /\ today' = [today EXCEPT ![p] = NoDate]
  /\ ret' = [ret EXCEPT ![p] = NoRet]
  /\ UNCHANGED <<now, file, history, lockHeld, snap, loaded, d, arch, sv, inv,
                 saveFailed, serial, overlap, glast, gsum, gcnt, tmp, rd, pre>>
  /\ UNCHANGED io

MainNext ==
  \/ Tick
  \/ \E p \in Procs : Begin(p)
  \/ \E p \in Procs : Acquire(p)
  \/ \E p \in Procs : Update(p)
  \/ \E p \in Procs : Save(p)
  \/ \E p \in Procs : ReleaseM(p)
  \/ \E p \in Procs : Totals(p)

MainSpec == Init /\ [][MainNext]_vars

(* -------------------- one process, whole invocations ------------------ *)
\* update_daily from entry to return by a process that runs alone: today is
\* read, the lock is taken and released, and nothing interleaves.  The
\* locals of process 1 keep the values of the last invocation.
InvokeWith(n, S) ==
  /\ inv < n
  /\ \A p \in Procs : pc[p] = "idle"
  /\ CanLock(1)
  /\ \E s \in S :
       LET obj == load(file)
           roll == IsRollover(obj, now)
           doArch == roll /\ ShouldArchive(obj)
           g == GStep([last |-> glast, sum |-> gsum, cnt |-> gcnt], roll, s)
           nd == Step(obj, now, s)
       IN \E aok \in (IF doArch THEN BOOLEAN ELSE {TRUE}) :
            LET res == IF doArch
                       THEN ArchiveAppend(history, Summary(obj), aok)
                       ELSE [hist |-> history, raised |-> FALSE]
            IN /\ today' = [today EXCEPT ![1] = now]
               /\ snap' = [snap EXCEPT ![1] = s]
               /\ loaded' = [loaded EXCEPT ![1] = obj]
               /\ history' = res.hist
               /\ arch' = [arch EXCEPT ![1] =
                    IF doArch THEN (IF aok THEN "ok" ELSE "failed") ELSE "none"]
               /\ IF res.raised
                  THEN /\ d' = [d EXCEPT ![1] = obj]
                       /\ sv' = [sv EXCEPT ![1] = "none"]
                       /\ ret' = [ret EXCEPT ![1] = [kind |-> "raise", val |-> <<>>]]
                       /\ UNCHANGED <<file, saveFailed, glast, gsum, gcnt>>
                  ELSE \E ok \in BOOLEAN :
                       /\ d' = [d EXCEPT ![1] = nd]
                       /\ file' = save(file, nd, ok)
                       /\ sv' = [sv EXCEPT ![1] = IF ok THEN "ok" ELSE "failed"]
                       /\ ret' = [ret EXCEPT ![1] = RetOf(nd, s)]
                       /\ saveFailed' = (saveFailed \/ ~ok)
                       /\ IF saveFailed
                          THEN UNCHANGED <<glast, gsum, gcnt>>
                          ELSE IF ok
                          THEN /\ glast' = g.last
                               /\ gsum' = g.sum
                               /\ gcnt' = g.cnt
                          ELSE /\ glast' = GInit.last
                               /\ gsum' = GInit.sum
                               /\ gcnt' = GInit.cnt
  /\ inv' = inv + 1
  /\ UNCHANGED <<now, lockHeld, pc, serial, overlap>>

\* update_daily called with any arguments
InvokeCore(n) == InvokeWith(n, Snapshots)

Invoke == InvokeCore(MaxSeq) /\ UNCHANGED aux

SeqNext == Tick \/ Invoke

SeqSpec == Init /\ [][SeqNext]_vars

(* ----------------------- main, with its faults ------------------------ *)
\* main run by one process from the call of update_daily to the printed
\* line; between runs the daily file may become unreadable.

\* the daily file is damaged from outside: load will return {}
Corrupt ==
  /\ file.ok
  /\ file' = [ok |-> FALSE, obj |-> EmptyObj]
  /\ pre' = [pre EXCEPT !.fault = "damaged",
                        !.before = (pre.before \/ pre.fault = "lock")]
  /\ UNCHANGED <<now, history, lockHeld, pc, today, snap, loaded, d, arch, sv,
                 ret, inv, saveFailed, serial, overlap, glast, gsum, gcnt>>
  /\ UNCHANGED <<tmp, rd, out>>
  /\ UNCHANGED io

\* main: update_daily returned or raised, then the line is built and printed
MainRun ==
  /\ InvokeCore(MaxFault)
  /\ pre' = [file |-> file, history |-> history, fault |-> "none",
             before |-> (pre.before \/ pre.fault = "lock")]
  /\ out' = [out EXCEPT ![1] = MainTail(ret'[1], now, history', now)]
  /\ UNCHANGED <<tmp, rd>>
  /\ UNCHANGED io

\* a lock failure that lets update_daily go on without the lock
MainLockFailIgnored ==
  /\ InvokeCore(MaxFault)
  /\ pre' = [file |-> file, history |-> history, fault |-> "lock",
             before |-> (pre.before \/ pre.fault = "lock")]
  /\ out' = [out EXCEPT ![1] = MainTail(ret'[1], now, history', now)]
  /\ UNCHANGED <<tmp, rd>>
  /\ UNCHANGED io

\* main when mkdir, os.open or flock(LOCK_EX) raises: update_daily raises
\* before load, the finally block runs only if the descriptor was opened,
\* and main, which catches nothing there, ends without printing
MainLockFail ==
  /\ inv < MaxFault
  /\ \A p \in Procs : pc[p] = "idle"
  /\ today' = [today EXCEPT ![1] = now]
  /\ snap' = [snap EXCEPT ![1] = NoSnap]
  /\ loaded' = [loaded EXCEPT ![1] = EmptyObj]
  /\ d' = [d EXCEPT ![1] = EmptyObj]
  /\ arch' = [arch EXCEPT ![1] = "none"]
  /\ sv' = [sv EXCEPT ![1] = "none"]
  /\ ret' = [ret EXCEPT ![1] = [kind |-> "raise", val |-> <<>>]]
  /\ inv' = inv + 1
  /\ pre' = [file |-> file, history |-> history, fault |-> "lock",
             before |-> (pre.before \/ pre.fault = "lock")]
  /\ out' = [out EXCEPT ![1] = MainTail(ret'[1], now, history, now)]
  /\ UNCHANGED <<now, file, history, lockHeld, pc, saveFailed, serial, overlap,
                 glast, gsum, gcnt, tmp, rd>>
  /\ UNCHANGED io

FaultNext == Tick \/ Corrupt \/ MainRun \/ MainLockFail

FaultSpec == Init /\ [][FaultNext]_vars

(* --------------------- save, one system call at a time ---------------- *)
\* update_daily by process 1 from line 236 on: the object d is built and
\* the lock is held.  The temporary file is absent, empty, partial or
\* full; an earlier crash may have left a partial one behind.  A reader
\* without the lock reads the daily file once, between any two steps, and
\* the process may be killed between any two steps.

\* the daily file and the temporary file after O_TRUNC on the daily file
OpenInPlace(fs) == [file |-> [ok |-> FALSE, obj |-> EmptyObj], tmp |-> fs.tmp]

\* os.open(tmp, O_WRONLY | O_CREAT | O_TRUNC)
OpenTmp(fs) == [file |-> fs.file, tmp |-> [st |-> "empty", obj |-> EmptyObj]]

\* a save whose failure leaves update_daily as an exception
RetAfterSaveRaising(obj, s, failed) ==
  IF failed THEN [kind |-> "raise", val |-> <<>>] ELSE RetOf(obj, s)

\* the return statement after save: save has swallowed its exception
RetAfterSave(obj, s, failed) == RetOf(obj, s)

SavePcs == {"s_open", "s_write", "s_fsync", "s_rename", "s_unlink", "s_ret"}

SaveInit ==
  /\ now \in Dates
  /\ \/ file = [ok |-> FALSE, obj |-> EmptyObj]
     \/ \E t \in 1..now, s \in {x \in Snapshots : x.sid = 1} :
          file = [ok |-> TRUE, obj |-> Step(EmptyObj, t, s)]
  /\ \E s \in Snapshots :
       /\ snap = [p \in Procs |-> IF p = 1 THEN s ELSE NoSnap]
       /\ loaded = [p \in Procs |-> IF p = 1 THEN load(file) ELSE EmptyObj]
       /\ d = [p \in Procs |-> IF p = 1 THEN Step(load(file), now, s) ELSE EmptyObj]
  /\ tmp \in {NoTmp, [st |-> "partial", obj |-> EmptyObj]}
  /\ history = <<>>
  /\ lockHeld = {1}
  /\ pc = [p \in Procs |-> IF p = 1 THEN "s_open" ELSE "idle"]
  /\ today = [p \in Procs |-> IF p = 1 THEN now ELSE NoDate]
  /\ arch = [p \in Procs |-> "none"]
  /\ sv = [p \in Procs |-> "none"]
  /\ ret = [p \in Procs |-> NoRet]
  /\ inv = 0
  /\ saveFailed = FALSE
  /\ serial = EmptyObj
  /\ overlap = FALSE
  /\ glast = GInit.last
  /\ gsum = GInit.sum
  /\ gcnt = GInit.cnt
  /\ rd = NoRead
  /\ raw = NoRaw
  /\ nrg = NoNrg
  /\ pre = [file |-> file, history |-> <<>>, fault |-> "none", before |-> FALSE]
  /\ out = [p \in Procs |-> NoOut]

SaveFrame == UNCHANGED <<now, history, today, snap, loaded, d, arch, inv,
                         saveFailed, serial, overlap, glast, gsum, gcnt, pre, out,
                         raw, nrg>>

\* line 83: the temporary file is created or truncated, or open raises
SOpen ==
  /\ pc[1] = "s_open"
  /\ \/ /\ file' = OpenTmp([file |-> file, tmp |-> tmp]).file
        /\ tmp' = OpenTmp([file |-> file, tmp |-> tmp]).tmp
        /\ pc' = [pc EXCEPT ![1] = "s_write"]
     \/ /\ pc' = [pc EXCEPT ![1] = "s_unlink"]
        /\ UNCHANGED <<file, tmp>>
  /\ UNCHANGED <<lockHeld, sv, ret, rd>>
  /\ SaveFrame

\* lines 85-86: json.dump and flush put the text into the temporary file,
\* in one write or in two, or a write raises
SWrite ==
  /\ pc[1] = "s_write"
  /\ \/ /\ tmp.st = "empty"
        /\ tmp' = [st |-> "partial", obj |-> EmptyObj]
        /\ pc' = pc
     \/ /\ tmp' = [st |-> "full", obj |-> d[1]]
        /\ pc' = [pc EXCEPT ![1] = "s_fsync"]
     \/ /\ tmp' = tmp
        /\ pc' = [pc EXCEPT ![1] = "s_unlink"]
  /\ UNCHANGED <<file, lockHeld, sv, ret, rd>>
  /\ SaveFrame

\* line 87: fsync returns or raises
SFsync ==
  /\ pc[1] = "s_fsync"
  /\ \E ok \in BOOLEAN :
       pc' = [pc EXCEPT ![1] = IF ok THEN "s_rename" ELSE "s_unlink"]
  /\ UNCHANGED <<file, tmp, lockHeld, sv, ret, rd>>
  /\ SaveFrame

\* line 88: rename puts the temporary file in the place of the daily file
\* in one step, or raises and changes nothing
SRename ==
  /\ pc[1] = "s_rename"
  /\ \/ /\ file' = [ok |-> TRUE, obj |-> tmp.obj]
        /\ tmp' = NoTmp
        /\ sv' = [sv EXCEPT ![1] = "ok"]
        /\ pc' = [pc EXCEPT ![1] = "s_ret"]
     \/ /\ pc' = [pc EXCEPT ![1] = "s_unlink"]
        /\ UNCHANGED <<file, tmp, sv>>
  /\ UNCHANGED <<lockHeld, ret, rd>>
  /\ SaveFrame

\* lines 89-94: the except clause unlinks the temporary file; an unlink
\* that raises is passed over
SUnlink ==
  /\ pc[1] = "s_unlink"
  /\ \/ /\ tmp' = NoTmp
        /\ sv' = [sv EXCEPT ![1] = "failed"]
     \/ /\ tmp.st # "absent"
        /\ tmp' = tmp
        /\ sv' = [sv EXCEPT ![1] = "failed_tmp_left"]
  /\ pc' = [pc EXCEPT ![1] = "s_ret"]
  /\ UNCHANGED <<file, lockHeld, ret, rd>>
  /\ SaveFrame

\* lines 237-241: the tuple is returned and the finally block unlocks
SReturn ==
  /\ pc[1] = "s_ret"
  /\ ret' = [ret EXCEPT ![1] = RetAfterSave(d[1], snap[1], sv[1] # "ok")]
  /\ lockHeld' = lockHeld \ {1}
  /\ pc' = [pc EXCEPT ![1] = "done"]
  /\ UNCHANGED <<file, tmp, sv, rd>>
  /\ SaveFrame

\* the process is killed between two steps; the kernel drops its lock
SCrash ==
  /\ pc[1] \in SavePcs
  /\ pc' = [pc EXCEPT ![1] = "crashed"]
  /\ lockHeld' = lockHeld \ {1}
  /\ UNCHANGED <<file, tmp, sv, ret, rd>>
  /\ SaveFrame

\* another program reads the daily file without taking the lock
SRead ==
  /\ rd.st = "none"
  /\ rd' = [st |-> IF file.ok THEN "state" ELSE "nothing", obj |-> load(file)]
  /\ UNCHANGED <<file, tmp, lockHeld, pc, sv, ret>>
  /\ SaveFrame

SaveNext == SOpen \/ SWrite \/ SFsync \/ SRename \/ SUnlink \/ SReturn \/ SCrash \/ SRead

SaveSpec == SaveInit /\ [][SaveNext]_vars

(* ------------------------ main and standard input --------------------- *)
\* What main reads: text that is not JSON ("garbage"), JSON that is not an
\* object ("nonobject": a list, a number, a string, null), or an object in
\* which each of the five fields is present or absent.
UnknownSid == NumSessions   \* the session keyed "unknown"

RawInputs ==
  {[kind |-> k, sid |-> 0, inp |-> -1, out |-> -1, cr |-> -1, cw |-> -1] :
     k \in {"garbage", "nonobject"}}
  \cup [kind : {"object"}, sid : 0..NumSessions, inp : -1..MaxTok, out : -1..MaxTok,
        cr : -1..MaxCache, cw : -1..MaxCache]

\* .get(key, 0) on a count
FieldOr0(v) == IF v = -1 THEN 0 ELSE v

\* lines 341-366: json.loads failing gives {}, and every field is read with
\* a default
SnapshotOf(r) ==
  [sid |-> IF r.sid = 0 THEN UnknownSid ELSE r.sid,
   inp |-> FieldOr0(r.inp), out |-> FieldOr0(r.out),
   cr |-> FieldOr0(r.cr), cw |-> FieldOr0(r.cw)]

\* main on text that is no JSON or on a JSON object
MainInput ==
  \E r \in {x \in RawInputs : x.kind # "nonobject"} :
    /\ raw' = r
    /\ InvokeWith(MaxInput, {SnapshotOf(r)})
    /\ pre' = [file |-> file, history |-> history, fault |-> "none",
               before |-> (pre.before \/ pre.fault = "lock")]
    /\ out' = [out EXCEPT ![1] = MainTail(ret'[1], now, history', now)]
    /\ UNCHANGED <<tmp, rd, nrg>>

\* main on JSON that is not an object: data.get at line 355 raises
\* AttributeError, which nothing catches; update_daily is never called
MainInputCrash ==
  \E r \in {x \in RawInputs : x.kind = "nonobject"} :
    /\ inv < MaxInput
    /\ \A p \in Procs : pc[p] = "idle"
    /\ raw' = r
    /\ inv' = inv + 1
    /\ out' = [out EXCEPT ![1] = [NoOut EXCEPT !.kind = "crash"]]
    /\ UNCHANGED <<now, file, history, lockHeld, pc, today, snap, loaded, d, arch,
                   sv, ret, saveFailed, serial, overlap, glast, gsum, gcnt, tmp,
                   rd, pre, nrg>>

InputNext == Tick \/ MainInput \/ MainInputCrash

InputSpec == Init /\ [][InputNext]_vars

(* ------------------------ energy_mid and fmt_nrg ---------------------- *)
\* Energies are whole numbers of thousandths of a mWh: energy_mid of whole
\* token counts is a multiple of 0.005 mWh, and fmt_nrg is given such values.
E_IN == 390
E_OUT == 1400
E_CACHE == 15
E_CW == 490

\* energy_mid with cache reads and cache writes weighted by each other's constant
EnergyMidSwapped(f, c, w, o) == f * E_IN + c * E_CW + w * E_CACHE + o * E_OUT

\* energy_mid(fresh_in, cached_in, cache_write_in, out), times 1000
EnergyMid(f, c, w, o) == f * E_IN + c * E_CACHE + w * E_CW + o * E_OUT

RECURSIVE Pow10(_)
Pow10(n) == IF n = 0 THEN 1 ELSE 10 * Pow10(n - 1)

\* int(math.floor(math.log10(mwh))) for mwh >= 1
RECURSIVE Decade(_)
Decade(x) == IF x < 10000 THEN 0 ELSE 1 + Decade(x \div 10)

\* 10^0.15, 10^0.50 and 10^0.85 in millionths, rounded down
F15 == 1412537
F50 == 3162277
F85 == 7079457

\* frac < threshold, for x in decade k: x / (1000 * 10^k) is below 10^threshold.
\* The powers are irrational, so a whole x is below one exactly when it is
\* at most its integer part (exact up to decade 3).
FracBelow(x, k, F) == IF k <= 3 THEN x <= F \div Pow10(3 - k)
                               ELSE x \div Pow10(k - 3) <= F

\* a snap to the value that is nearest on the linear scale
FmtNrgLinear(x) ==
  IF x < 1000 THEN 0
  ELSE LET k == Decade(x)
       IN IF 2 * x < 3000 * Pow10(k) THEN Pow10(k)
          ELSE IF 2 * x < 7000 * Pow10(k) THEN 2 * Pow10(k)
          ELSE IF 2 * x < 15000 * Pow10(k) THEN 5 * Pow10(k)
          ELSE Pow10(k + 1)

\* val of fmt_nrg in mWh; 0 stands for the text "~0"
FmtNrg(x) ==
  IF x < 1000 THEN 0
  ELSE LET k == Decade(x)
       IN IF FracBelow(x, k, F15) THEN Pow10(k)
          ELSE IF FracBelow(x, k, F50) THEN 2 * Pow10(k)
          ELSE IF FracBelow(x, k, F85) THEN 5 * Pow10(k)
          ELSE Pow10(k + 1)

\* the text fmt_nrg returns for val: the number and the unit after "~"
FmtText(val) ==
  IF val = 0 THEN <<0, "">>
  ELSE IF val < 1000 THEN <<val, "mWh">>
  ELSE IF val < 1000000 THEN <<val \div 1000, "Wh">>
  ELSE <<val \div 1000000, "kWh">>

TokArgs == {0, 1, 1000, 2000} \X {0, 1000} \X {0, 1000} \X {0, 1000}

\* every whole number of mWh up to MaxMwh, and values below 1 mWh and
\* beside the first threshold
Midpoints == {1000 * m : m \in 0..MaxMwh} \cup {1, 999, 1412, 1413}

NrgInit ==
  /\ nrg \in {[st |-> "args", tok |-> a, x |-> m, mid |-> -1, val |-> -1,
               txt |-> <<0, "">>] : a \in TokArgs, m \in Midpoints}
  /\ now = 1
  /\ file = [ok |-> FALSE, obj |-> EmptyObj]
  /\ history = <<>>
  /\ lockHeld = {}
  /\ pc = [p \in Procs |-> "idle"]
  /\ today = [p \in Procs |-> NoDate]
  /\ snap = [p \in Procs |-> NoSnap]
  /\ loaded = [p \in Procs |-> EmptyObj]
  /\ d = [p \in Procs |-> EmptyObj]
  /\ arch = [p \in Procs |-> "none"]
  /\ sv = [p \in Procs |-> "none"]
  /\ ret = [p \in Procs |-> NoRet]
  /\ inv = 0
  /\ saveFailed = FALSE
  /\ serial = EmptyObj
  /\ overlap = FALSE
  /\ glast = GInit.last
  /\ gsum = GInit.sum
  /\ gcnt = GInit.cnt
  /\ tmp = NoTmp
  /\ rd = NoRead
  /\ pre = NoPre
  /\ out = [p \in Procs |-> NoOut]
  /\ raw = NoRaw

NrgFrame == UNCHANGED <<now, file, history, lockHeld, pc, today, snap, loaded, d,
                        arch, sv, ret, inv, saveFailed, serial, overlap, glast,
                        gsum, gcnt, tmp, rd, pre, out, raw>>

\* energy_mid is applied to the four token counts
Estimate ==
  /\ nrg.st = "args"
  /\ nrg' = [nrg EXCEPT !.st = "mid",
                        !.mid = EnergyMid(nrg.tok[1], nrg.tok[2], nrg.tok[3], nrg.tok[4])]
  /\ NrgFrame

\* fmt_nrg is applied to the midpoint x
Format ==
  /\ nrg.st = "mid"
  /\ nrg' = [nrg EXCEPT !.st = "done", !.val = FmtNrg(nrg.x),
                        !.txt = FmtText(FmtNrg(nrg.x))]
  /\ NrgFrame

NrgNext == Estimate \/ Format

NrgSpec == NrgInit /\ [][NrgNext]_vars

(* ------------------ the range aggregator on its own ------------------- *)
\* One main whose update_daily has returned the live values and whose
\* archive holds lines for some of the last MaxBack days and for today.
\* The line for the day b days ago carries 2^(b+1) times the live values,
\* an older line for the same day 2^(b+MaxBack+2) times, so that a sum
\* tells which lines went into it.
RECURSIVE Pow2(_)
Pow2(n) == IF n = 0 THEN 1 ELSE 2 * Pow2(n - 1)

UnitTot == [input |-> 1, output |-> 3, cache_read |-> 5, cache_write |-> 7]
ScaleTot(k, a) == [input |-> k * a.input, output |-> k * a.output,
                   cache_read |-> k * a.cache_read, cache_write |-> k * a.cache_write]
LineFor(dt, k) == [date |-> dt, input |-> k, output |-> 3 * k, cache_read |-> 5 * k,
                   cache_write |-> 7 * k, sessions |-> 1]

RangeDays == 29..35   \* Monday 29 January to Sunday 4 February

Presence == {pf \in [0..MaxBack -> 0..2] : \A b \in 0..MaxBack : pf[b] = 2 => b \in 1..MaxDup}

RECURSIVE ArchiveOf(_, _, _)
ArchiveOf(t, pf, b) ==
  IF b < 0 THEN <<>>
  ELSE (IF pf[b] = 2 THEN <<LineFor(t - b, Pow2(b + MaxBack + 2))>> ELSE <<>>)
       \o (IF pf[b] >= 1 THEN <<LineFor(t - b, Pow2(b + 1))>> ELSE <<>>)
       \o ArchiveOf(t, pf, b - 1)

\* a line for yesterday that json.loads rejects: it was cut short before
\* its closing brace, and load_history passes it over
BadLine(t) == [LineFor(t - 1, Pow2(2 * MaxBack + 3)) EXCEPT !.sessions = -1]

\* the archive with no such line, or with one before or after its lines
BadPlaces == {"none", "first", "last"}
WithBad(h, place, t) == IF place = "first" THEN <<BadLine(t)>> \o h
                        ELSE IF place = "last" THEN Append(h, BadLine(t))
                        ELSE h

RangeInit ==
  /\ now \in RangeDays
  /\ \E pf \in Presence, place \in BadPlaces :
       history = WithBad(ArchiveOf(now, pf, MaxBack), place, now)
  /\ \E k \in 0..1 :
       ret = [p \in Procs |-> IF p = 1
                THEN [kind |-> "ok", val |-> <<k, 3 * k, 5 * k, 7 * k, 0, 0>>]
                ELSE NoRet]
  /\ file = [ok |-> FALSE, obj |-> EmptyObj]
  /\ lockHeld = {}
  /\ pc = [p \in Procs |-> "idle"]
  /\ today = [p \in Procs |-> IF p = 1 THEN now ELSE NoDate]
  /\ snap = [p \in Procs |-> NoSnap]
  /\ loaded = [p \in Procs |-> EmptyObj]
  /\ d = [p \in Procs |-> EmptyObj]
  /\ arch = [p \in Procs |-> "none"]
  /\ sv = [p \in Procs |-> "none"]
  /\ inv = 0
  /\ saveFailed = FALSE
  /\ serial = EmptyObj
  /\ overlap = FALSE
  /\ glast = GInit.last
  /\ gsum = GInit.sum
  /\ gcnt = GInit.cnt
  /\ tmp = NoTmp
  /\ rd = NoRead
  /\ raw = NoRaw
  /\ nrg = NoNrg
  /\ pre = NoPre
  /\ out = [p \in Procs |-> NoOut]

\* weekly_monthly_totals(d_in, d_out, d_cr, d_cw) on the same day
RangeTotals ==
  /\ out[1].kind = "none"
  /\ out' = [out EXCEPT ![1] = MainTail(ret[1], now, history, today[1])]
  /\ UNCHANGED <<now, file, history, lockHeld, pc, today, snap, loaded, d, arch,
                 sv, ret, inv, saveFailed, serial, overlap, glast, gsum, gcnt,
                 tmp, rd, pre>>
  /\ UNCHANGED io

RangeNext == RangeTotals

RangeSpec == RangeInit /\ [][RangeNext]_vars

(* ------------------- the first invocations of a new day --------------- *)
\* Day 2 has begun and the daily file holds the state some invocation of
\* session 1 left on day 1.  Every process reads today = day 2; the clock
\* does not move again.
DayChangeInit ==
  /\ now = 2
  /\ \E s \in {x \in Snapshots : x.sid = 1 /\ x.out = 0 /\ x.cw = 0} :
       /\ file = [ok |-> TRUE, obj |-> Step(EmptyObj, 1, s)]
       /\ serial = Step(EmptyObj, 1, s)
       /\ glast = GStep(GInit, TRUE, s).last
       /\ gsum = GStep(GInit, TRUE, s).sum
       /\ gcnt = GStep(GInit, TRUE, s).cnt
  /\ pre = [file |-> file, history |-> <<>>, fault |-> "none", before |-> FALSE]
  /\ history = <<>>
  /\ lockHeld = {}
  /\ pc = [p \in Procs |-> "idle"]
  /\ today = [p \in Procs |-> NoDate]
  /\ snap = [p \in Procs |-> NoSnap]
  /\ loaded = [p \in Procs |-> EmptyObj]
  /\ d = [p \in Procs |-> EmptyObj]
  /\ arch = [p \in Procs |-> "none"]
  /\ sv = [p \in Procs |-> "none"]
  /\ ret = [p \in Procs |-> NoRet]
  /\ inv = 0
  /\ saveFailed = FALSE
  /\ overlap = FALSE
  /\ tmp = NoTmp
  /\ rd = NoRead
  /\ raw = NoRaw
  /\ nrg = NoNrg
  /\ out = [p \in Procs |-> NoOut]

DayChangeNext ==
  \/ \E p \in Procs : Begin(p)
  \/ \E p \in Procs : Acquire(p)
  \/ \E p \in Procs : Update(p)
  \/ \E p \in Procs : Save(p)
  \/ \E p \in Procs : Release(p)

DayChangeSpec == DayChangeInit /\ [][DayChangeNext]_vars

(* ------------------------------ claims -------------------------------- *)
InCS(p) == pc[p] \in {"locked", "save", "rel"}

\* the object the last whole invocation updated, after its rollover branch
LastBase == AfterRollover(loaded[1], today[1])
LastRan == snap[1].sid \in Sessions
LastRolled == LastRan /\ loaded[1].date # today[1]

\* C1: whatever the interleaving of concurrent invocations, once no process
\* is between load and save and every save has succeeded, the daily file
\* holds what the same invocations produce run one at a time in the order
\* they took the lock.
C1_SerialEquivalence ==
  (~saveFailed /\ \A p \in Procs : pc[p] \notin {"locked", "save"})
    => load(file) = serial

C1_Witness ==
  /\ overlap /\ ~saveFailed /\ inv = 2
  /\ \A p \in Procs : pc[p] = "idle"
  /\ file.ok /\ file.obj = serial
  /\ NumSessionsOf(file.obj) = 2
  /\ file.obj.input = 2 /\ file.obj.cached = 2
  /\ history = <<>>

\* C2: at most one process is between acquiring and releasing the lock, and
\* a process that has loaded the daily file for update or is rewriting it is
\* the one holder of the lock.
C2_MutualExclusion ==
  /\ Cardinality(lockHeld) <= 1
  /\ Cardinality({p \in Procs : InCS(p)}) <= 1
  /\ \A p \in Procs : InCS(p) => lockHeld = {p}

C2_Witness ==
  \E p, q \in Procs : /\ pc[p] = "save" /\ pc[q] = "wait"
                      /\ lockHeld = {p} /\ d[p].input = 1

\* C3: within one DailyState, each session's accumulated cache_read (and
\* cache_write) equals the sum of the values carried by its boundary
\* snapshots, and the day totals are the sums of these over the sessions,
\* however many non-boundary snapshots were delivered.
C3_ExactlyOnce ==
  ~saveFailed =>
    /\ \A s \in Sessions :
         /\ PrevRec(load(file), s).c = gsum[s].cr
         /\ PrevRec(load(file), s).cw = gsum[s].cw
    /\ load(file).cached = SumOver([s \in Sessions |-> gsum[s].cr], Sessions)
    /\ load(file).cache_write = SumOver([s \in Sessions |-> gsum[s].cw], Sessions)

\* three snapshots of one session, only the second a boundary
C3_Witness ==
  /\ ~saveFailed
  /\ \E s \in Sessions :
       /\ gcnt[s] = [n |-> 3, nb |-> 1]
       /\ file.obj.sessions[s].c = 1
       /\ file.obj.sessions[s].li = 1
       /\ loaded[1].sessions[s].c = 1
       /\ file.obj.cached = 1
       /\ file.obj.output = 0

\* C4: a snapshot whose input total equals the stored last_total_input and
\* whose cache_read is nonzero and differs from the stored one adds its
\* cache_read to the session and to the day; a snapshot equal to the stored
\* raw values adds nothing.
C4_CacheOnlyCall ==
  LastRan =>
    LET s == snap[1]
        prev == PrevRec(LastBase, s.sid)
    IN /\ (s.inp = prev.li /\ s.cr # 0 /\ s.cr # prev.lcr)
            => /\ d[1].cached = LastBase.cached + s.cr
               /\ d[1].sessions[s.sid].c = prev.c + s.cr
       /\ (s.inp = prev.li /\ s.cr = prev.lcr /\ s.cw = prev.lcw)
            => /\ d[1].cached = LastBase.cached
               /\ d[1].sessions[s.sid].c = prev.c

\* a first call, a fully cached call, and the same snapshot once more
C4_Witness ==
  /\ ~saveFailed /\ LastRan
  /\ gcnt[snap[1].sid] = [n |-> 3, nb |-> 2]
  /\ snap[1].inp = 1 /\ snap[1].cr = 1 /\ snap[1].cw = 0
  /\ loaded[1].date = today[1]
  /\ loaded[1].sessions[snap[1].sid].li = 1
  /\ loaded[1].sessions[snap[1].sid].lcr = 1
  /\ loaded[1].cached = 1
  /\ file.obj.cached = 1 /\ file.obj.input = 1

\* C5: no update lowers a day counter, and a snapshot whose input or output
\* total is below the stored one leaves that counter as it was.
C5_NonNegative ==
  LastRan =>
    LET s == snap[1]
        prev == PrevRec(LastBase, s.sid)
    IN /\ d[1].input >= LastBase.input
       /\ d[1].output >= LastBase.output
       /\ d[1].cached >= LastBase.cached
       /\ d[1].cache_write >= LastBase.cache_write
       /\ s.inp < prev.i => d[1].input = LastBase.input
       /\ s.out < prev.o => d[1].output = LastBase.output

C5_Witness ==
  /\ LastRan /\ ~IsRollover(loaded[1], today[1])
  /\ snap[1].inp < loaded[1].sessions[snap[1].sid].i
  /\ snap[1].out < loaded[1].sessions[snap[1].sid].o
  /\ loaded[1].input = 1 /\ d[1].input = 1 /\ d[1].output = 1

\* C6: an update that finds a state dated before today leaves a state dated
\* today whose counters are this update's deltas alone.
C6_RolloverFresh ==
  (LastRolled /\ loaded[1].date # NoDate) =>
    /\ d[1].date = today[1]
    /\ d[1].input = snap[1].inp
    /\ d[1].output = snap[1].out
    /\ d[1].cached = snap[1].cr
    /\ d[1].cache_write = snap[1].cw
    /\ sv[1] = "ok" => file = [ok |-> TRUE, obj |-> d[1]]

C6_Witness ==
  /\ LastRolled /\ loaded[1].date = 1 /\ today[1] = 2
  /\ loaded[1].input = 1 /\ loaded[1].output = 1
  /\ snap[1].inp = 1
  /\ sv[1] = "ok" /\ file.obj.input = 1 /\ file.obj.date = 2

\* C7: the line appended at rollover carries the old state's date, its four
\* counters as persisted and the number of its session records.
C7_HistoryEntry ==
  (LastRan /\ arch[1] = "ok") =>
    /\ Len(history) > 0
    /\ history[Len(history)] =
         [date |-> loaded[1].date, input |-> loaded[1].input,
          output |-> loaded[1].output, cache_read |-> loaded[1].cached,
          cache_write |-> loaded[1].cache_write,
          sessions |-> Cardinality({s \in Sessions : loaded[1].sessions[s] # NoRec})]

C7_Witness ==
  /\ LastRan /\ arch[1] = "ok" /\ Len(history) = 1
  /\ history[1].date = 1 /\ history[1].sessions = 2
  /\ history[1].input = 2 /\ history[1].output = 1
  /\ history[1].cache_read = 1 /\ history[1].cache_write = 0

\* C8: the archive never holds two entries for the same date.
C8_OneEntryPerDate ==
  \A i, j \in 1..Len(history) : i # j => history[i].date # history[j].date

\* C9: at rollover the old state is handed to the archive exactly when one
\* of its four counters is nonzero.
C9_ArchivedIffActive ==
  (LastRolled /\ loaded[1].date # NoDate) =>
    ((arch[1] # "none") <=>
       (loaded[1].input # 0 \/ loaded[1].output # 0
        \/ loaded[1].cached # 0 \/ loaded[1].cache_write # 0))

\* C10: an invocation whose archive append failed still returns normally,
\* holds a state dated today with this update's deltas, has handed it to
\* save, and the daily file is that state or, when save failed, what it was.
C10_ArchiveFailureIgnored ==
  (LastRan /\ arch[1] = "failed") =>
    /\ ret[1].kind = "ok"
    /\ sv[1] # "none"
    /\ d[1].date = today[1]
    /\ d[1].input = snap[1].inp /\ d[1].output = snap[1].out
    /\ d[1].cached = snap[1].cr /\ d[1].cache_write = snap[1].cw
    /\ ret[1].val = <<snap[1].inp, snap[1].out, snap[1].cr, snap[1].cw,
                      snap[1].cr, snap[1].cw>>
    /\ sv[1] = "ok" => file = [ok |-> TRUE, obj |-> d[1]]
    /\ sv[1] = "failed" => (file.ok /\ file.obj = loaded[1])

C10_Witness ==
  /\ LastRan /\ arch[1] = "failed" /\ sv[1] = "ok"
  /\ history = <<>>
  /\ loaded[1].date = 1 /\ loaded[1].input = 1
  /\ file.obj.date = 2 /\ file.obj.input = 1 /\ file.obj.cached = 1
  /\ ret[1].kind = "ok"

\* C11: when the daily file is missing, empty or unparseable, update_daily
\* works from a state without a date: nothing is archived, the state it
\* builds is a fresh one for today that holds only the invoking session,
\* its counters are the snapshot's values (the deltas against an all-zero
\* baseline), and it returns normally.
C11_EmptyStateFreshDay ==
  (LastRan /\ ~pre.file.ok) =>
    /\ loaded[1] = EmptyObj
    /\ arch[1] = "none"
    /\ history = pre.history
    /\ d[1].date = today[1]
    /\ \A s \in Sessions \ {snap[1].sid} : d[1].sessions[s] = NoRec
    /\ d[1].sessions[snap[1].sid] =
         [i |-> snap[1].inp, o |-> snap[1].out, c |-> snap[1].cr, cw |-> snap[1].cw,
          li |-> snap[1].inp, lcr |-> snap[1].cr, lcw |-> snap[1].cw]
    /\ d[1].input = snap[1].inp /\ d[1].output = snap[1].out
    /\ d[1].cached = snap[1].cr /\ d[1].cache_write = snap[1].cw
    /\ ret[1] = [kind |-> "ok",
                 val |-> <<snap[1].inp, snap[1].out, snap[1].cr, snap[1].cw,
                           snap[1].cr, snap[1].cw>>]

\* a run that found the file unreadable after an earlier run had written it
C11_Witness ==
  /\ LastRan /\ ~pre.file.ok /\ inv = 2
  /\ snap[1].inp = 1 /\ snap[1].cr = 1
  /\ sv[1] = "ok" /\ file.obj.input = 1 /\ file.obj.date = today[1]
  /\ out[1].kind = "line"

\* C12: when save fails at any of its steps, update_daily still returns the
\* totals of the object it built in memory and raises nothing, the daily
\* file holds what it held before, and the temporary file is gone unless
\* its removal failed too.
C12_PersistFailureReturns ==
  (pc[1] = "done" /\ sv[1] # "ok") =>
    /\ ret[1] = [kind |-> "ok",
                 val |-> <<d[1].input, d[1].output, d[1].cached, d[1].cache_write,
                           d[1].sessions[snap[1].sid].c, d[1].sessions[snap[1].sid].cw>>]
    /\ d[1] = Step(load(pre.file), today[1], snap[1])
    /\ file = pre.file
    /\ sv[1] = "failed" => tmp = NoTmp
    /\ lockHeld = {}

\* a failed save over an existing file, after the text had been written
C12_Witness ==
  /\ pc[1] = "done" /\ sv[1] = "failed"
  /\ pre.file.ok /\ file = pre.file /\ d[1] # file.obj
  /\ d[1].input > file.obj.input
  /\ ret[1].kind = "ok" /\ ret[1].val[1] = d[1].input
  /\ tmp = NoTmp

\* C16: at every point of a save, also after a kill between two of its
\* steps, the daily file holds the complete previous content or the
\* complete new one, and what a reader without the lock gets is one of the two.
C16_AtomicReplace ==
  /\ file = pre.file \/ file = [ok |-> TRUE, obj |-> d[1]]
  /\ sv[1] = "ok" => file = [ok |-> TRUE, obj |-> d[1]]
  /\ rd.st # "none" =>
       \/ rd = [st |-> IF pre.file.ok THEN "state" ELSE "nothing", obj |-> load(pre.file)]
       \/ rd = [st |-> "state", obj |-> d[1]]

\* a kill while the temporary file was half written, and a read after it
C16_Witness ==
  /\ pc[1] = "crashed" /\ tmp.st = "partial"
  /\ pre.file.ok /\ d[1] # pre.file.obj
  /\ rd = [st |-> "state", obj |-> pre.file.obj]

\* C13: a process holds the lock only between its flock(LOCK_EX) and its
\* finally block, whether update_daily is returning or raising, so no
\* process that has left update_daily holds it, and whenever a process
\* waits for the lock the lock later becomes free.
C13_LockReleased ==
  /\ [](lockHeld \subseteq {p \in Procs : InCS(p)})
  /\ \A q \in Procs : (pc[q] = "wait") ~> (pc[q] = "locked" \/ lockHeld = {})

\* a process waits while the other, on its raising path, still holds the lock
C13_Witness ==
  /\ pc[2] = "wait" /\ pc[1] = "rel" /\ ret[1].kind = "raise" /\ lockHeld = {1}

\* C14: an invocation in which taking the lock fails ends with an error and
\* has loaded, archived and saved nothing: the daily file and the archive
\* are what they were on entry and no lock is held.  A run of main after
\* such a failure updates the state it finds as any other run does.
C14_LockFailureIsolated ==
  /\ pre.fault = "lock" =>
       /\ ret[1].kind = "raise"
       /\ file = pre.file /\ history = pre.history
       /\ loaded[1] = EmptyObj /\ arch[1] = "none" /\ sv[1] = "none"
       /\ lockHeld = {}
  /\ (pre.fault = "none" /\ pre.before) =>
       /\ ret[1] = RetOf(Step(load(pre.file), today[1], snap[1]), snap[1])
       /\ d[1] = Step(load(pre.file), today[1], snap[1])
       /\ sv[1] = "ok" => file = [ok |-> TRUE, obj |-> d[1]]
       /\ sv[1] = "failed" => file = pre.file

\* the lock failed in a run that found a stored state with nonzero counters
C14_Witness ==
  /\ pre.fault = "lock" /\ ret[1].kind = "raise"
  /\ file.ok /\ file.obj.input = 1 /\ file.obj.cached = 1
  /\ file = pre.file

\* C15: whatever the core does (load, persist or archive failing, or the
\* lock not being taken), a run of main ends with a summary line printed.
C15_AlwaysALine ==
  inv > 0 => out[1].kind = "line"

\* the sum of one counter over every line of the archive dated in [start, end]
SumLines(h, f, start, end) ==
  LET I == {i \in 1..Len(h) : LineOk(h[i]) /\ start <= h[i].date /\ h[i].date <= end}
  IN SumOver([i \in I |-> h[i][f]], I)

EveryLine(h, start, end) ==
  [input |-> SumLines(h, "input", start, end),
   output |-> SumLines(h, "output", start, end),
   cache_read |-> SumLines(h, "cache_read", start, end),
   cache_write |-> SumLines(h, "cache_write", start, end)]

\* C17: for the week (from Monday) and the month (from the 1st), each of
\* the four totals is the sum of that counter over every entry of the
\* archive dated from the start to yesterday, plus today's live counter;
\* a date without an entry adds nothing.
C17_EveryEntrySummed ==
  out[1].kind = "line" =>
    /\ out[1].week = AddTot(EveryLine(history, MondayOf(now), now - 1), LiveOf(ret[1]))
    /\ out[1].month = AddTot(EveryLine(history, MonthStart(now), now - 1), LiveOf(ret[1]))

\* the archive has a line for each of the last MaxBack days
TenDays == \A b \in 1..MaxBack : (now - b) \in HistDates(history)

\* the line the archive holds for the day b days ago, as load_history keeps it
KeptLine(b) == LastLineOf(history, now - b)

\* C19 as stated: with a line for each of the last ten days, the week total
\* is the live counters plus the lines of the six days before today, on
\* every weekday.
C19_LastSixDays ==
  (out[1].kind = "line" /\ TenDays) =>
    \A f \in {"input", "output", "cache_read", "cache_write"} :
      out[1].week[f] = LiveOf(ret[1])[f] + SumOver([b \in 1..6 |-> KeptLine(b)[f]], 1..6)

\* C19: with a line for each of the last ten days, the week total is the
\* live counters plus the lines dated from the Monday of today's week to
\* yesterday (none on a Monday, six on a Sunday), and a line for today in
\* the archive changes nothing.
C19_MondayToYesterday ==
  (out[1].kind = "line" /\ TenDays) =>
    \A f \in {"input", "output", "cache_read", "cache_write"} :
      out[1].week[f] = LiveOf(ret[1])[f]
        + SumOver([b \in 1..Weekday(now) |-> KeptLine(b)[f]], 1..Weekday(now))

\* a Wednesday with lines for today and the ten days before it: the week
\* holds Monday's and Tuesday's lines and the live counters
C19_Witness ==
  /\ out[1].kind = "line" /\ TenDays
  /\ Weekday(now) = 2
  /\ now \in HistDates(history)
  /\ ret[1].val[1] = 1
  /\ out[1].week.input = 1 + 4 + 8
  /\ out[1].week.cache_write = 7 * (1 + 4 + 8)

\* C20: in every update of a session that already has a stored record,
\* rollover or not, the stored accumulated cache_read and cache_write of
\* the session do not decrease, and they change only when the detector,
\* applied to the session's stored record, reports a new call.
C20_AccumulatedMonotone ==
  (LastRan /\ loaded[1].sessions[snap[1].sid] # NoRec) =>
    LET old == loaded[1].sessions[snap[1].sid]
        new == d[1].sessions[snap[1].sid]
    IN /\ new.c >= old.c
       /\ new.cw >= old.cw
       /\ (new.c # old.c \/ new.cw # old.cw) => NewCall(snap[1], old)

\* C18: in every run of main, also when midnight or another process's
\* rollover falls between update_daily returning and the archive being
\* read, the date whose counters are added as today's live values is not
\* the date of an archive line summed into the week or the month.
C18_TodayCountedOnce ==
  \A p \in Procs : out[p].kind = "line" => ~out[p].dup

\* C21: while the stored date stays the same, each of the four day
\* counters is the sum, over all sessions, of the deltas of every update
\* since the state of that date was created, and an update that finds the
\* state dated today lowers none of the four counters.
C21_CountersAreDeltaSums ==
  /\ ~saveFailed =>
       /\ load(file).input = SumOver([s \in Sessions |-> gsum[s].di], Sessions)
       /\ load(file).output = SumOver([s \in Sessions |-> gsum[s].do], Sessions)
       /\ load(file).cached = SumOver([s \in Sessions |-> gsum[s].cr], Sessions)
       /\ load(file).cache_write = SumOver([s \in Sessions |-> gsum[s].cw], Sessions)
  /\ (LastRan /\ ~IsRollover(loaded[1], today[1])) =>
       /\ d[1].date = loaded[1].date
       /\ d[1].input >= loaded[1].input
       /\ d[1].output >= loaded[1].output
       /\ d[1].cached >= loaded[1].cached
       /\ d[1].cache_write >= loaded[1].cache_write

\* three updates by two sessions on one date
C21_Witness ==
  /\ ~saveFailed /\ LastRan /\ inv = 3
  /\ gcnt[1].n = 2 /\ gcnt[2].n = 1
  /\ gsum[1].di = 1 /\ gsum[2].di = 1 /\ gsum[1].do = 1
  /\ file.obj.input = 2 /\ file.obj.output = 1
  /\ file.obj.date = loaded[1].date

\* the stored record of the invoking session as the detector reads it: each
\* field of a missing record is zero
StoredOrZero == 
  LET rec == LastBase.sessions[snap[1].sid]
  IN IF rec = NoRec
     THEN [i |-> 0, o |-> 0, c |-> 0, cw |-> 0, li |-> 0, lcr |-> 0, lcw |-> 0]
     ELSE rec

\* C22: for every snapshot and stored record the detector's result is
\* (input total > last input total) or (cache_read # last cache_read) or
\* (cache_write # last cache_write), a missing record read as zeros; the
\* accumulated cache values grow by the snapshot's values exactly then.
C22_DetectorFormula ==
  LastRan =>
    LET s == snap[1]
        det == \/ s.inp > StoredOrZero.li
               \/ s.cr # StoredOrZero.lcr
               \/ s.cw # StoredOrZero.lcw
    IN /\ NewCall(s, PrevRec(LastBase, s.sid)) <=> det
       /\ d[1].sessions[s.sid].c = StoredOrZero.c + (IF det THEN s.cr ELSE 0)
       /\ d[1].sessions[s.sid].cw = StoredOrZero.cw + (IF det THEN s.cw ELSE 0)
       /\ d[1].sessions[s.sid].lcr = s.cr /\ d[1].sessions[s.sid].lcw = s.cw
       /\ d[1].sessions[s.sid].li = s.inp

\* a snapshot in which only cache_write differs from the stored record
C22_Witness ==
  /\ LastRan /\ LastBase.sessions[snap[1].sid] # NoRec
  /\ snap[1].inp = StoredOrZero.li /\ snap[1].cr = StoredOrZero.lcr
  /\ snap[1].cr = 1
  /\ snap[1].cw = 1 /\ StoredOrZero.lcw = 0
  /\ d[1].sessions[snap[1].sid].cw = StoredOrZero.cw + 1
  /\ d[1].sessions[snap[1].sid].c = StoredOrZero.c + 1

\* C23 as stated: on the first snapshot of a session, when no record is
\* stored for it, the detector reports no new call and nothing is accumulated.
C23_NoBoundaryOnFirst ==
  (LastRan /\ LastBase.sessions[snap[1].sid] = NoRec) =>
    /\ ~NewCall(snap[1], PrevRec(LastBase, snap[1].sid))
    /\ d[1].sessions[snap[1].sid].c = 0
    /\ d[1].sessions[snap[1].sid].cw = 0

\* C23: on the first snapshot of a session the detector compares with an
\* all-zero record: it reports a new call exactly when the input total or a
\* cache value of the snapshot is nonzero, and the snapshot's cache values
\* become the session's accumulated values and are added to the day once.
C23_FirstAgainstZero ==
  (LastRan /\ LastBase.sessions[snap[1].sid] = NoRec) =>
    /\ NewCall(snap[1], PrevRec(LastBase, snap[1].sid))
         <=> (snap[1].inp > 0 \/ snap[1].cr # 0 \/ snap[1].cw # 0)
    /\ d[1].sessions[snap[1].sid].c = snap[1].cr
    /\ d[1].sessions[snap[1].sid].cw = snap[1].cw
    /\ d[1].cached = LastBase.cached + snap[1].cr
    /\ d[1].cache_write = LastBase.cache_write + snap[1].cw
    /\ d[1].input = LastBase.input + snap[1].inp

\* the first snapshot of a second session, fully cached, on a day that
\* already has counters
C23_Witness ==
  /\ LastRan /\ LastBase.sessions[snap[1].sid] = NoRec
  /\ ~IsRollover(loaded[1], today[1]) /\ loaded[1].cached = 1
  /\ snap[1].inp = 0 /\ snap[1].cr = 1 /\ snap[1].cw = 0
  /\ d[1].sessions[snap[1].sid].c = 1
  /\ d[1].cached = 2

\* C27: when a session that has a record in the state of an earlier day
\* sends its next snapshot after the rollover, the new day's input and
\* output receive only the growth since the totals recorded for the session.
C27_OnlyGrowthAfterRollover ==
  (LastRolled /\ loaded[1].sessions[snap[1].sid] # NoRec) =>
    /\ d[1].input = Max0(snap[1].inp - loaded[1].sessions[snap[1].sid].i)
    /\ d[1].output = Max0(snap[1].out - loaded[1].sessions[snap[1].sid].o)

\* C28: within one day what a session has added to the day's input counter
\* (the whole counter, when it is the day's only session) is the largest
\* input total the session has reported, also when a total fell and
\* recovered; likewise for output.
C28_ContributionIsLargest ==
  ~saveFailed =>
    \A s \in Sessions :
      (/\ file.ok /\ file.obj.sessions[s] # NoRec
       /\ \A s2 \in Sessions \ {s} : file.obj.sessions[s2] = NoRec) =>
        /\ file.obj.input = gsum[s].mi
        /\ file.obj.output = gsum[s].mo

\* C29: a snapshot equal to the one stored for its session on the same day
\* (same input and output totals, same cache values) leaves the state as it
\* was: it is no new call and all four deltas are zero, so a second fully
\* cached call with the same values is not counted.
C29_SameSnapshotIdempotent ==
  (LastRan /\ ~IsRollover(loaded[1], today[1])
     /\ loaded[1].sessions[snap[1].sid] # NoRec
     /\ loaded[1].sessions[snap[1].sid].i = snap[1].inp
     /\ loaded[1].sessions[snap[1].sid].o = snap[1].out
     /\ loaded[1].sessions[snap[1].sid].li = snap[1].inp
     /\ loaded[1].sessions[snap[1].sid].lcr = snap[1].cr
     /\ loaded[1].sessions[snap[1].sid].lcw = snap[1].cw) =>
    /\ d[1] = loaded[1]
    /\ sv[1] = "ok" => file.obj = loaded[1]
    /\ ret[1].val = <<loaded[1].input, loaded[1].output, loaded[1].cached,
                      loaded[1].cache_write, loaded[1].sessions[snap[1].sid].c,
                      loaded[1].sessions[snap[1].sid].cw>>

\* a fully cached snapshot delivered twice in succession
C29_Witness ==
  /\ LastRan /\ ~saveFailed /\ sv[1] = "ok"
  /\ glast[snap[1].sid] = snap[1]
  /\ gcnt[snap[1].sid] = [n |-> 2, nb |-> 1]
  /\ snap[1].inp = 0 /\ snap[1].cr = 1 /\ snap[1].cw = 1
  /\ d[1] = loaded[1] /\ file.obj = d[1]
  /\ d[1].cached = 1 /\ d[1].cache_write = 1

\* C30: a snapshot whose input total has grown while its cache values equal
\* the ones stored from the snapshot before is a new call: the repeated
\* cache values are added again to the session's accumulated values and to
\* the day's counters.
C30_RepeatedCacheAddedAgain ==
  LastRan =>
    LET s == snap[1]
        prev == PrevRec(LastBase, s.sid)
    IN (s.inp > prev.li /\ s.cr = prev.lcr /\ s.cw = prev.lcw) =>
         /\ d[1].sessions[s.sid].c = prev.c + s.cr
         /\ d[1].sessions[s.sid].cw = prev.cw + s.cw
         /\ d[1].cached = LastBase.cached + s.cr
         /\ d[1].cache_write = LastBase.cache_write + s.cw

\* input grows from 0 to 1 while cache_read stays 1: it is counted twice
C30_Witness ==
  /\ LastRan /\ ~IsRollover(loaded[1], today[1])
  /\ loaded[1].sessions[snap[1].sid] # NoRec
  /\ loaded[1].sessions[snap[1].sid].li = 0
  /\ loaded[1].sessions[snap[1].sid].lcr = 1
  /\ loaded[1].sessions[snap[1].sid].c = 1
  /\ snap[1].inp = 1 /\ snap[1].cr = 1 /\ snap[1].cw = 0
  /\ d[1].sessions[snap[1].sid].c = 2
  /\ d[1].cached = loaded[1].cached + 1

\* C24: the midpoint estimate is linear in its four token counts and
\* depends on nothing else: estimate(1000,0,0,0) is 390 mWh, estimate of
\* four zeros is 0, doubling fresh_in alone doubles fresh_in's share (the
\* whole result when the other counts are 0), and the result is
\* (fresh*390 + cached*15 + cache_write*490 + out*1400)/1000.
C24_EstimatorLinear ==
  nrg.mid # -1 =>
    LET f == nrg.tok[1]  c == nrg.tok[2]  w == nrg.tok[3]  o == nrg.tok[4]
    IN /\ nrg.mid = f * 390 + c * 15 + w * 490 + o * 1400
       /\ nrg.tok = <<1000, 0, 0, 0>> => nrg.mid = 390 * 1000
       /\ nrg.tok = <<0, 0, 0, 0>> => nrg.mid = 0
       /\ EnergyMid(2 * f, 0, 0, 0) = 2 * EnergyMid(f, 0, 0, 0)
       /\ EnergyMid(2 * f, c, w, o) - nrg.mid = EnergyMid(f, 0, 0, 0)
       /\ EnergyMid(f, c, w, o) = nrg.mid

\* 1000 fresh, 1000 cached and 1000 cache-write tokens: 390 + 15 + 490 mWh
C24_Witness ==
  /\ nrg.st = "mid" /\ nrg.tok = <<1000, 1000, 1000, 0>>
  /\ nrg.mid = 895 * 1000

\* the value fmt_nrg prints is 1, 2 or 5 times a power of ten
OneTwoFive(v) == \E k \in 0..4 : v \in {Pow10(k), 2 * Pow10(k), 5 * Pow10(k)}

\* the snap of a whole number m of mWh, 1 <= m < 1410, read off the three
\* thresholds 10^0.15 = 1.41.., 10^0.50 = 3.16.., 10^0.85 = 7.07..
SnapOf(m) ==
  LET p == IF m < 10 THEN 1 ELSE IF m < 100 THEN 10 ELSE IF m < 1000 THEN 100 ELSE 1000
  IN IF 100 * m <= 141 * p THEN p
     ELSE IF 100 * m <= 316 * p THEN 2 * p
     ELSE IF 100 * m <= 707 * p THEN 5 * p
     ELSE 10 * p

\* C25 as stated: every midpoint of at least 1 mWh is printed as 1, 2 or 5
\* times a power of ten chosen by the thresholds 0.15, 0.50, 0.85 on the
\* fractional part of log10, and 130 gives 100, 140 gives 200, 999 gives 1000.
C25_SnapWith140To200 ==
  (nrg.val # -1 /\ nrg.x >= 1000) =>
    /\ OneTwoFive(nrg.val)
    /\ nrg.x % 1000 = 0 => nrg.val = SnapOf(nrg.x \div 1000)
    /\ nrg.x = 130 * 1000 => nrg.val = 100
    /\ nrg.x = 140 * 1000 => nrg.val = 200
    /\ nrg.x = 999 * 1000 => nrg.val = 1000

\* C25: every midpoint of at least 1 mWh is printed as 1, 2 or 5 times a
\* power of ten chosen by the thresholds 0.15, 0.50, 0.85 on the fractional
\* part of log10; 130 gives 100, 140 gives 100 as well (log10 of 1.4 is
\* 0.146), 142 gives 200, and 999 gives 1000, printed as 1 Wh.
C25_SnapOneTwoFive ==
  (nrg.val # -1 /\ nrg.x >= 1000) =>
    /\ OneTwoFive(nrg.val)
    /\ nrg.x % 1000 = 0 => nrg.val = SnapOf(nrg.x \div 1000)
    /\ nrg.x = 1412 => nrg.val = 1
    /\ nrg.x = 1413 => nrg.val = 2
    /\ nrg.x = 130 * 1000 => nrg.val = 100 /\ nrg.txt = <<100, "mWh">>
    /\ nrg.x = 140 * 1000 => nrg.val = 100
    /\ nrg.x = 142 * 1000 => nrg.val = 200
    /\ nrg.x = 999 * 1000 => nrg.val = 1000 /\ nrg.txt = <<1, "Wh">>

\* 140 mWh has been formatted
C25_Witness ==
  /\ nrg.st = "done" /\ nrg.x = 140 * 1000
  /\ nrg.val = 100 /\ nrg.txt = <<100, "mWh">>

\* what the claim says of a run of main that is given the input raw
InputHandled ==
  /\ out[1].kind = "line"
  /\ snap[1] = [sid |-> IF raw.sid = 0 THEN UnknownSid ELSE raw.sid,
                inp |-> IF raw.inp = -1 THEN 0 ELSE raw.inp,
                out |-> IF raw.out = -1 THEN 0 ELSE raw.out,
                cr |-> IF raw.cr = -1 THEN 0 ELSE raw.cr,
                cw |-> IF raw.cw = -1 THEN 0 ELSE raw.cw]
  /\ raw.kind # "object" =>
       /\ snap[1] = [sid |-> UnknownSid, inp |-> 0, out |-> 0, cr |-> 0, cw |-> 0]
       /\ d[1].input = LastBase.input /\ d[1].output = LastBase.output
       /\ d[1].cached = LastBase.cached /\ d[1].cache_write = LastBase.cache_write

\* C26: whatever main reads on standard input, the run does not fail: an
\* absent field is read as its zero value (session "unknown", counts 0), and
\* input that is malformed or no JSON is an empty snapshot whose update adds
\* zero to the four day counters.
C26_AnyInputHandled ==
  raw.kind # "none" => InputHandled

\* C31: after every update for session s the record of s in the state handed
\* to save holds the snapshot's raw totals and current-call cache values,
\* boundary or not, and the accumulated cache totals (the stored ones, plus
\* the snapshot's values when the detector reports a new call); the returned
\* tuple is the four day counters of that state and s's accumulated totals.
C31_RecordHoldsRawSnapshot ==
  LastRan =>
    LET s == snap[1]
        det == \/ s.inp > StoredOrZero.li
               \/ s.cr # StoredOrZero.lcr
               \/ s.cw # StoredOrZero.lcw
        acc_cr == StoredOrZero.c + (IF det THEN s.cr ELSE 0)
        acc_cw == StoredOrZero.cw + (IF det THEN s.cw ELSE 0)
    IN /\ d[1].sessions[s.sid] =
            [i |-> s.inp, o |-> s.out, c |-> acc_cr, cw |-> acc_cw,
             li |-> s.inp, lcr |-> s.cr, lcw |-> s.cw]
       /\ ret[1].kind = "ok"
       /\ ret[1].val = <<d[1].input, d[1].output, d[1].cached, d[1].cache_write,
                         acc_cr, acc_cw>>
       /\ sv[1] = "ok" => file.obj.sessions[s.sid] = d[1].sessions[s.sid]

\* no new call: the totals fell below the stored ones and the cache values
\* are the stored ones, and the record takes the lower totals all the same
C31_Witness ==
  /\ LastRan /\ ~IsRollover(loaded[1], today[1])
  /\ loaded[1].sessions[snap[1].sid] = [i |-> 1, o |-> 1, c |-> 1, cw |-> 0,
                                        li |-> 1, lcr |-> 1, lcw |-> 0]
  /\ snap[1] = [sid |-> snap[1].sid, inp |-> 0, out |-> 0, cr |-> 1, cw |-> 0]
  /\ d[1].sessions[snap[1].sid] = [i |-> 0, o |-> 0, c |-> 1, cw |-> 0,
                                   li |-> 0, lcr |-> 1, lcw |-> 0]
  /\ sv[1] = "ok" /\ file.obj.sessions[snap[1].sid].i = 0
  /\ ret[1].val = <<1, 1, 1, 0, 1, 0>>

\* C32: an update that finds the stored date different from today works on
\* an empty state dated today: none of the old counters or session records
\* is kept, so the state handed to save holds the record of the invoking
\* session and no other, and each day counter is this update's delta, taken
\* against an all-zero baseline.
C32_RolloverReplacesAll ==
  LastRolled =>
    LET s == snap[1] IN
    /\ LastBase = [date |-> today[1], sessions |-> [x \in Sessions |-> NoRec],
                   input |-> 0, output |-> 0, cached |-> 0, cache_write |-> 0]
    /\ d[1].date = today[1]
    /\ {x \in Sessions : d[1].sessions[x] # NoRec} = {s.sid}
    /\ d[1].sessions[s.sid] = [i |-> s.inp, o |-> s.out, c |-> s.cr, cw |-> s.cw,
                               li |-> s.inp, lcr |-> s.cr, lcw |-> s.cw]
    /\ d[1].input = s.inp /\ d[1].output = s.out
    /\ d[1].cached = s.cr /\ d[1].cache_write = s.cw
    /\ sv[1] = "ok" => file = [ok |-> TRUE, obj |-> d[1]]

\* a day with two sessions and counters is followed by an update of one of
\* the two on the next day
C32_Witness ==
  /\ LastRolled /\ loaded[1].date = 1 /\ today[1] = 2
  /\ \A x \in Sessions : loaded[1].sessions[x] # NoRec
  /\ loaded[1].input = 2 /\ loaded[1].cached = 1
  /\ snap[1].inp = 1 /\ snap[1].cr = 0
  /\ sv[1] = "ok" /\ NumSessionsOf(file.obj) = 1
  /\ file.obj.input = 1 /\ file.obj.cached = 0

\* C33: no step modifies or removes a line of the archive: the archive
\* changes only by one line put after the lines it holds, in an invocation
\* that finds the stored date different from today, and an invocation that
\* finds the stored date equal to today leaves the archive as it is.
C33_ArchiveAppendOnly ==
  [][/\ history' # history =>
          /\ inv' = inv + 1
          /\ load(file).date # now
          /\ Len(history') = Len(history) + 1
          /\ \A i \in 1..Len(history) : history'[i] = history[i]
          /\ history'[Len(history')].date = load(file).date
     /\ (inv' = inv + 1 /\ load(file).date = now) => history' = history]_vars

\* a second line has been appended to an archive that held one
C33_Witness ==
  /\ LastRolled /\ arch[1] = "ok" /\ Len(history) = 2
  /\ history[1].date = 1 /\ history[1].input = 1
  /\ history[2].date = 1
  /\ loaded[1].date = 1 /\ today[1] = 2

\* C34: whatever the interleaving of invocations around midnight, each of
\* which reads the date before it waits for the lock, a save never replaces
\* the stored state by one of an earlier date: an invocation that has saved
\* left a date no earlier than the date it had loaded.
C34_DateNeverBackwards ==
  \A p \in Procs :
    (pc[p] = "rel" /\ sv[p] = "ok" /\ loaded[p].date # NoDate) =>
      /\ file.obj.date >= loaded[p].date
      /\ arch[p] = "ok" => history[Len(history)].date < file.obj.date

\* the state of the old day, as the first invocations of the new day find it
OldDay == pre.file.obj
OldDayActive == \/ OldDay.input # 0 \/ OldDay.output # 0
                \/ OldDay.cached # 0 \/ OldDay.cache_write # 0

\* C35: when the processes that make the first invocations of a new day all
\* read the new date and every save succeeds, exactly one of them archives
\* the old day and resets the state: the one that finds the old date is the
\* first to load, hands the old day (if it has a nonzero counter) to the
\* archive and builds a fresh state; every other one finds the state dated
\* today, archives nothing and adds its deltas to it; the archive never
\* holds more than the one line of the old day.
C35_OneRolloverPerDay ==
  ~saveFailed =>
    /\ Len(history) <= 1
    /\ history # <<>> => history[1] = Summary(OldDay)
    /\ \A p \in Procs :
         pc[p] \in {"save", "rel"} =>
           IF loaded[p].date # today[p]
           THEN /\ loaded[p] = OldDay
                /\ OldDayActive => arch[p] # "none"
                /\ arch[p] = "ok" => history = <<Summary(OldDay)>>
                /\ d[p] = ApplySnapshot(FreshDay(today[p]), snap[p])
           ELSE /\ loaded[p] # OldDay /\ loaded[p].date = now
                /\ arch[p] = "none"
                /\ d[p].date = loaded[p].date
                /\ d[p].input = loaded[p].input
                     + Max0(snap[p].inp - PrevRec(loaded[p], snap[p].sid).i)
                /\ d[p].output = loaded[p].output
                     + Max0(snap[p].out - PrevRec(loaded[p], snap[p].sid).o)
                /\ \A s \in Sessions \ {snap[p].sid} :
                     d[p].sessions[s] = loaded[p].sessions[s]

\* C36: an update in which the detector reports no new call (the input
\* total is not above the stored last input total and both cache values are
\* the stored ones, a missing record read as zeros) adds nothing to the
\* day's input, cache_read and cache_write counters and leaves the
\* session's accumulated cache totals as stored; the day's output counter
\* alone may grow, by the growth of the output total.
C36_NoCallOnlyOutputGrows ==
  (/\ LastRan
   /\ snap[1].inp <= StoredOrZero.li
   /\ snap[1].cr = StoredOrZero.lcr
   /\ snap[1].cw = StoredOrZero.lcw) =>
    /\ d[1].input = LastBase.input
    /\ d[1].cached = LastBase.cached
    /\ d[1].cache_write = LastBase.cache_write
    /\ d[1].sessions[snap[1].sid].c = StoredOrZero.c
    /\ d[1].sessions[snap[1].sid].cw = StoredOrZero.cw
    /\ d[1].output = LastBase.output + Max0(snap[1].out - StoredOrZero.o)
    /\ ret[1].val[1] = LastBase.input /\ ret[1].val[3] = LastBase.cached
    /\ ret[1].val[4] = LastBase.cache_write

\* streaming: the stored input total and cache values come again and the
\* output total has grown
C36_Witness ==
  /\ LastRan /\ ~IsRollover(loaded[1], today[1])
  /\ loaded[1].sessions[snap[1].sid] # NoRec
  /\ snap[1].inp = 1 /\ loaded[1].sessions[snap[1].sid].li = 1
  /\ snap[1].cr = 1 /\ loaded[1].sessions[snap[1].sid].lcr = 1
  /\ snap[1].cw = loaded[1].sessions[snap[1].sid].lcw
  /\ snap[1].out = 1 /\ loaded[1].sessions[snap[1].sid].o = 0
  /\ d[1].output = loaded[1].output + 1
  /\ d[1].input = loaded[1].input /\ d[1].cached = loaded[1].cached
  /\ loaded[1].input = 1 /\ loaded[1].cached = 1

\* C37: an update for session s that finds the state dated today leaves the
\* record of every other session as it was loaded, and removes no record:
\* every session that had a record in the loaded state has one in the state
\* handed to save, and in the file once the save succeeded.
C37_OtherSessionsUntouched ==
  (LastRan /\ loaded[1].date = today[1]) =>
    /\ \A x \in Sessions \ {snap[1].sid} : d[1].sessions[x] = loaded[1].sessions[x]
    /\ \A x \in Sessions : loaded[1].sessions[x] # NoRec => d[1].sessions[x] # NoRec
    /\ d[1].date = loaded[1].date
    /\ sv[1] = "ok" =>
         \A x \in Sessions \ {snap[1].sid} :
           file.obj.sessions[x] = loaded[1].sessions[x]

\* the third update of a day: the other session's record, with its
\* accumulated cache value, is still there
C37_Witness ==
  /\ LastRan /\ loaded[1].date = today[1] /\ inv = 3 /\ sv[1] = "ok"
  /\ \E x \in Sessions \ {snap[1].sid} :
       /\ loaded[1].sessions[x] # NoRec /\ loaded[1].sessions[x].c = 1
       /\ file.obj.sessions[x] = loaded[1].sessions[x]
  /\ loaded[1].sessions[snap[1].sid] # NoRec
  /\ d[1].sessions[snap[1].sid] # loaded[1].sessions[snap[1].sid]

\* the sum of one field over the session records of a state
SumRecs(obj, f) ==
  LET S == {s \in Sessions : obj.sessions[s] # NoRec}
  IN SumOver([s \in S |-> obj.sessions[s][f]], S)

\* the totals of every session came in non-decreasing order since the state
\* was created: the growth summed over its snapshots is its last total
NonDecreasing ==
  \A s \in Sessions : /\ gsum[s].di = glast[s].inp
                      /\ gsum[s].do = glast[s].out

\* C38: in every stored state the day's cache_read counter is the sum of the
\* accumulated cache_read of its session records, likewise cache_write; the
\* day's input and output counters are at least the sums of the records'
\* stored input and output totals, and equal to them when every session's
\* totals were reported in non-decreasing order.
C38_CountersMatchRecords ==
  LET obj == load(file) IN
  /\ obj.cached = SumRecs(obj, "c")
  /\ obj.cache_write = SumRecs(obj, "cw")
  /\ obj.input >= SumRecs(obj, "i")
  /\ obj.output >= SumRecs(obj, "o")
  /\ (~saveFailed /\ NonDecreasing) =>
       /\ obj.input = SumRecs(obj, "i")
       /\ obj.output = SumRecs(obj, "o")

\* two sessions on one day, the input total of one of them fell from 1 to 0
C38_Witness ==
  /\ ~saveFailed /\ inv = 3 /\ NumSessionsOf(file.obj) = 2
  /\ file.obj.input = 2 /\ SumRecs(file.obj, "i") = 1
  /\ file.obj.cached = 2 /\ SumRecs(file.obj, "c") = 2
  /\ \A s \in Sessions : file.obj.sessions[s].c = 1
  /\ ~NonDecreasing

\* C39: when the save of an invocation fails and the next invocation, for
\* the same session on the same day with input and output totals no lower,
\* saves, the saved day input and output counters are the ones the second
\* update would have produced from the state the first had built: what the
\* first update had added is added by the second, once.
C39_RetryAfterFailedSave ==
  [][(/\ LastRan /\ sv[1] = "failed"
      /\ inv' = inv + 1 /\ sv'[1] = "ok"
      /\ today'[1] = today[1]
      /\ snap'[1].sid = snap[1].sid
      /\ snap'[1].inp >= snap[1].inp
      /\ snap'[1].out >= snap[1].out) =>
       /\ file'.obj.input =
            d[1].input + Max0(snap'[1].inp - d[1].sessions[snap[1].sid].i)
       /\ file'.obj.output =
            d[1].output + Max0(snap'[1].out - d[1].sessions[snap[1].sid].o)]_vars

\* the days before today, from start on, that have a line in the archive
BacksFrom(start) ==
  {b \in 1..MaxBack : /\ now - b >= start
                      /\ \E i \in 1..Len(history) : /\ history[i].date = now - b
                                                      /\ history[i].sessions # -1}

\* what the archive adds to a total from start on when each date counts
\* once, with its last line: the last line of the day b days ago weighs 2^(b+1)
OncePerDate(start) == SumOver([b \in BacksFrom(start) |-> Pow2(b + 1)], BacksFrom(start))

\* C40: the aggregator counts each date of the archive once: of several
\* lines for one date the last alone goes into the week and month totals,
\* and a line that does not parse is passed over, whatever date and counts
\* can be read in it: the other lines are counted and the line is printed.
C40_LastLinePerDate ==
  out[1].kind # "none" =>
    /\ out[1].kind = "line"
    /\ out[1].week = AddTot(LiveOf(ret[1]), ScaleTot(OncePerDate(MondayOf(now)), UnitTot))
    /\ out[1].month = AddTot(LiveOf(ret[1]), ScaleTot(OncePerDate(MonthStart(now)), UnitTot))

\* a Wednesday: two lines for Tuesday, one for Monday, and at the end of
\* the archive a line for Tuesday that does not parse
C40_Witness ==
  /\ out[1].kind = "line" /\ Weekday(now) = 2
  /\ Cardinality({i \in 1..Len(history) : history[i].date = now - 1}) = 3
  /\ Cardinality({i \in 1..Len(history) : history[i].date = now - 2}) = 1
  /\ history[Len(history)] = BadLine(now)
  /\ ret[1].val[1] = 1
  /\ out[1].week.input = 1 + 4 + 8
  /\ out[1].week.output = 3 * (1 + 4 + 8)

====
